---- MODULE Spec2Model ----
(***************************************************************************)
(* Model of src/pipeline.py: the Dagster job "both_tickers".               *)
(*                                                                         *)
(* Two symbol branches (NFLX, DIS), each                                   *)
(*   get_<symbol> -> download_data -> validate_data -> clean_data          *)
(*                -> transform_data                                        *)
(* joined by write_to_csv.  A DataFrame is an index (timestamps, minutes   *)
(* since yesterday 00:00) and a function from column name to a column of   *)
(* values.  The ops mutate their argument in place and return it, so a     *)
(* branch hands one object from op to op; objects live in `heap`.          *)
(*                                                                         *)
(* Floating-point values are exact rationals <<n, d>> in lowest terms,     *)
(* extended with NaN = <<0, 0>> and Inf = <<1, 0>>, so that x / 0 behaves  *)
(* as it does in numpy (0/0 = NaN, x/0 = inf) instead of being undefined.  *)
(***************************************************************************)
EXTENDS Integers, Sequences, FiniteSets, TLC

(***************************************************************************)
(* Bounds of the model.                                                    *)
(***************************************************************************)
\* SpecAgg: a series has at most MaxBars bars, the first at minute 0 and the
\* others at minutes up to MaxTime after it.
MaxBars == 3
MaxTime == 17
\* Spec: the provider has bars for minutes 0..MaxMinute of yesterday.
MaxMinute == 1

(***************************************************************************)
(* Program constants.                                                      *)
(***************************************************************************)
\* rolling('15min', ...): the window length in minutes.
Window == 15
\* timedelta(days=1): one day, in minutes of the index.
MinutesPerDay == 1440
\* A window closed on both edges: rolling('15min', closed="both").
RollingClosedBoth == "both"
\* rolling('15min') gives no `closed`, which for a time window is "right".
RollingClosed == "right"

Branches == {"NFLX", "DIS"}

(***************************************************************************)
(* Floating point as extended rationals.                                   *)
(***************************************************************************)
NaN == <<0, 0>>
Inf == <<1, 0>>

RECURSIVE GCD(_, _)
GCD(a, b) == IF b = 0 THEN a ELSE GCD(b, a % b)

Norm(n, d) ==
    IF d = 0 THEN (IF n = 0 THEN NaN ELSE Inf)
    ELSE LET g == GCD(n, d) IN <<n \div g, d \div g>>

IsFinite(x) == x[2] # 0

FloatOf(n) == <<n, 1>>

FloatAdd(a, b) ==
    IF IsFinite(a) /\ IsFinite(b) THEN Norm(a[1] * b[2] + b[1] * a[2], a[2] * b[2])
    ELSE IF a = NaN \/ b = NaN THEN NaN
    ELSE Inf

FloatMulInt(a, k) ==
    IF IsFinite(a) THEN Norm(a[1] * k, a[2])
    ELSE IF a = NaN \/ k = 0 THEN NaN
    ELSE Inf

FloatDiv(a, b) ==
    IF IsFinite(a) /\ IsFinite(b) THEN Norm(a[1] * b[2], a[2] * b[1])
    ELSE IF a = NaN \/ b = NaN \/ (a = Inf /\ b = Inf) THEN NaN
    ELSE IF a = Inf THEN Inf
    ELSE FloatOf(0)

(***************************************************************************)
(* DataFrames.                                                             *)
(***************************************************************************)
RawCols == {"Open", "High", "Low", "Close", "Adj Close", "Volume"}

Columns(df) == DOMAIN df.col

NRows(df) == Len(df.index)

IsEmpty(df) == NRows(df) = 0

\* data[name] = values
SetColumn(df, name, values) ==
    [df EXCEPT !.col = [c \in Columns(df) \cup {name} |->
                            IF c = name THEN values ELSE df.col[c]]]

\* data.drop(names, axis=1)
DropColumns(df, names) ==
    [df EXCEPT !.col = [c \in Columns(df) \ names |-> df.col[c]]]

Min(S) == CHOOSE m \in S : \A x \in S : m <= x

RECURSIVE SortedSeq(_)
SortedSeq(S) ==
    IF S = {} THEN <<>>
    ELSE LET m == Min(S) IN <<m>> \o SortedSeq(S \ {m})

\* Series.cumsum() of an integer column.
RECURSIVE CumSum(_, _)
CumSum(values, i) ==
    IF i = 0 THEN 0 ELSE CumSum(values, i - 1) + values[i]

(***************************************************************************)
(* Series.rolling('15min', min_periods=1).sum(): the variable window of    *)
(* pandas.  start[i] is the first position of the window that ends at i:   *)
(* the start advances from the previous start to the first bar whose       *)
(* timestamp is beyond the left bound index[i] - window (one tick earlier  *)
(* when the window is closed on the left).                                 *)
(***************************************************************************)
\* The window a count-based rolling(15) would use.
FixedWindowStart(index, i) == IF i - Window + 1 < 1 THEN 1 ELSE i - Window + 1

RECURSIVE VariableWindowStart(_, _)
VariableWindowStart(index, i) ==
    IF i = 1 THEN 1
    ELSE LET prev   == VariableWindowStart(index, i - 1)
             bound  == IF RollingClosed \in {"left", "both"}
                       THEN index[i] - Window - 1
                       ELSE index[i] - Window
             inside == {j \in prev .. (i - 1) : index[j] - bound > 0}
         IN  IF inside = {} THEN i ELSE Min(inside)

RECURSIVE FloatSum(_, _, _)
FloatSum(values, lo, hi) ==
    IF lo > hi THEN FloatOf(0)
    ELSE FloatAdd(FloatSum(values, lo, hi - 1), values[hi])

RollingSum(index, values) ==
    [i \in 1 .. Len(index) |->
        FloatSum(values, VariableWindowStart(index, i), i)]

(***************************************************************************)
(* The ops, as functions from the argument frame to the outcome: `ok` is   *)
(* FALSE when the op raises, and `frame` is the argument object as the op  *)
(* leaves it (the ops mutate in place).                                    *)
(***************************************************************************)
Returned(df) == [ok |-> TRUE, frame |-> df]
Raised(df) == [ok |-> FALSE, frame |-> df]

\* validate_data: data.iloc[0] raises IndexError on a frame with no rows,
\* while the message of either branch is being formatted.
ValidateData(df) ==
    IF IsEmpty(df) THEN Raised(df)
    ELSE IF "Ticker" \notin Columns(df) THEN Raised(df)
    ELSE Returned(df)

\* The record validate_data logs before it returns.
ValidateLog(df) ==
    [level |-> "error", op |-> "validate_data",
     msg |-> IF IsEmpty(df) THEN "Data invalid" ELSE "Data valid",
     ticker |-> df.col["Ticker"][1]]

\* A drop that passes over a missing column: drop(..., errors="ignore").
CleanDataIgnoreMissing(df) == Returned(DropColumns(df, {"Adj Close"}))

\* clean_data: data.drop("Adj Close", axis=1, inplace=True) raises KeyError
\* when the column is not there.
CleanData(df) ==
    IF "Adj Close" \notin Columns(df) THEN Raised(df)
    ELSE Returned(DropColumns(df, {"Adj Close"}))

TypicalPrice(df) ==
    [i \in 1 .. NRows(df) |->
        Norm(df.col["High"][i] + df.col["Low"][i] + df.col["Close"][i], 3)]

\* Lines 55-62: the helper columns and VWAP; every column named on the
\* right is there.
WithVWAP(df) ==
    LET d1 == SetColumn(df, "Cumulative TPV",
                  [i \in 1 .. NRows(df) |->
                      FloatMulInt(df.col["Typical Price"][i], df.col["Volume"][i])])
        d2 == SetColumn(d1, "Cumulative Volume",
                  [i \in 1 .. NRows(df) |-> CumSum(df.col["Volume"], i)])
        d3 == SetColumn(d2, "Rolling TPV",
                  RollingSum(df.index, d2.col["Cumulative TPV"]))
        d4 == SetColumn(d3, "Rolling Volume",
                  RollingSum(df.index,
                      [i \in 1 .. NRows(df) |-> FloatOf(df.col["Volume"][i])]))
    IN  SetColumn(d4, "VWAP",
            [i \in 1 .. NRows(df) |->
                FloatDiv(d4.col["Rolling TPV"][i], d4.col["Rolling Volume"][i])])

\* The dollar value summed over the rolling window instead of the series.
DollarValueRolling(df) ==
    LET w == RollingSum(df.index,
                 [i \in 1 .. NRows(df) |->
                     FloatOf(df.col["Close"][i] * df.col["Volume"][i])])
    IN  [i \in 1 .. NRows(df) |-> w[i][1]]

\* Lines 72-75: (data['Close'] * data['Volume']).cumsum()
DollarValue(df) ==
    LET cv == [i \in 1 .. NRows(df) |-> df.col["Close"][i] * df.col["Volume"][i]]
    IN  [i \in 1 .. NRows(df) |-> CumSum(cv, i)]

TempCols ==
    {"Typical Price", "Rolling Volume", "Cumulative TPV", "Cumulative Volume",
     "Rolling TPV"}

\* transform_data.  A missing column raises KeyError at the line that reads
\* it, after the lines before it have already changed the frame.
TransformData(df) ==
    IF ~({"High", "Low", "Close"} \subseteq Columns(df)) THEN Raised(df)
    ELSE LET d55 == SetColumn(df, "Typical Price", TypicalPrice(df))
         IN  IF "Volume" \notin Columns(df) THEN Raised(d55)
             ELSE LET d69 == DropColumns(WithVWAP(d55), TempCols)
                  IN  Returned(SetColumn(d69, "DollarValue", DollarValue(d69)))

(***************************************************************************)
(* Rows by position: boolean-mask selection, concat and sort all build a   *)
(* frame from the rows of another at the positions pos[1], pos[2], ...     *)
(***************************************************************************)
SelectRows(df, pos) ==
    [index |-> [i \in 1 .. Len(pos) |-> df.index[pos[i]]],
     col   |-> [c \in Columns(df) |-> [i \in 1 .. Len(pos) |-> df.col[c][pos[i]]]]]

\* Date of a timestamp, in days since yesterday.
Date(t) == t \div MinutesPerDay

\* data.loc[data.index.date == yesterday]
FilterYesterday(df) ==
    SelectRows(df, SortedSeq({i \in 1 .. NRows(df) : Date(df.index[i]) = 0}))

\* pd.concat(dfs, ignore_index=False) of the two branch outputs: rows of
\* the first, then rows of the second; a column one side lacks is NaN there.
Concat(dfs) ==
    LET a == dfs[1]
        b == dfs[2]
        ColOf(df, c) == IF c \in Columns(df) THEN df.col[c]
                        ELSE [i \in 1 .. NRows(df) |-> NaN]
    IN  [index |-> a.index \o b.index,
         col   |-> [c \in Columns(a) \cup Columns(b) |-> ColOf(a, c) \o ColOf(b, c)]]

\* .sort_values("Datetime"): the default kind is quicksort, which is not
\* stable, so rows of equal timestamp may come out in any order.
SortOutcomes(df) ==
    {SelectRows(df, p) : p \in
        {q \in Permutations(1 .. NRows(df)) :
            \A i, j \in 1 .. NRows(df) :
                i < j => df.index[q[i]] <= df.index[q[j]]}}

(***************************************************************************)
(* The provider (yfinance), outside the program: for a ticker it answers   *)
(* with the bars of some of the minutes it was asked for, under one of the *)
(* column sets, or fails.                                                  *)
(***************************************************************************)
BarKinds ==
    << [Open |-> 1, High |-> 4, Low |-> 1, Close |-> 2, Volume |-> 0],
       [Open |-> 2, High |-> 4, Low |-> 2, Close |-> 2, Volume |-> 1],
       [Open |-> 5, High |-> 6, Low |-> 4, Close |-> 5, Volume |-> 2] >>

Field(bar, c) == IF c = "Adj Close" THEN bar.Close ELSE bar[c]

BarsFrame(index, bars, cols) ==
    [index |-> index,
     col   |-> [c \in cols |-> [i \in 1 .. Len(index) |-> Field(bars[i], c)]]]

\* The bar the market has for a ticker at a minute.
Quote(ticker, t) ==
    BarKinds[((t + (IF ticker = "NFLX" THEN 1 ELSE 2)) % Len(BarKinds)) + 1]

ColumnSets == {RawCols, RawCols \ {"Adj Close"}, RawCols \ {"Volume"}}

\* Minutes of yesterday, and the first minute of today.
ProviderMinutes == (0 .. MaxMinute) \cup {MinutesPerDay}

ProviderFrames(ticker) ==
    {BarsFrame(SortedSeq(ms), [i \in 1 .. Cardinality(ms) |-> Quote(ticker, SortedSeq(ms)[i])], cs) :
        ms \in SUBSET ProviderMinutes, cs \in ColumnSets}

\* download_data, given what the provider answered.
DownloadData(ticker, raw) ==
    LET data == FilterYesterday(raw)
    IN  SetColumn(data, "Ticker", [i \in 1 .. NRows(data) |-> ticker])

(***************************************************************************)
(* The graph: running_pipeline and collection_pipeline.                    *)
(***************************************************************************)
GetOp(b) == IF b = "NFLX" THEN "get_netflix" ELSE "get_disney"

GetNode(b) == <<b, GetOp(b)>>
DownloadNode(b) == <<b, "download_data">>
ValidateNode(b) == <<b, "validate_data">>
CleanNode(b) == <<b, "clean_data">>
TransformNode(b) == <<b, "transform_data">>
WriteNode == <<"ALL", "write_to_csv">>

BranchNodes(b) ==
    {GetNode(b), DownloadNode(b), ValidateNode(b), CleanNode(b), TransformNode(b)}

Nodes == UNION {BranchNodes(b) : b \in Branches} \cup {WriteNode}

\* write_to_csv([data_nflx]): the join wired to one branch only.
UpstreamOneBranch(n) ==
    IF n = WriteNode THEN {TransformNode("NFLX")}
    ELSE IF n[2] = "download_data" THEN {GetNode(n[1])}
    ELSE IF n[2] = "validate_data" THEN {DownloadNode(n[1])}
    ELSE IF n[2] = "clean_data" THEN {ValidateNode(n[1])}
    ELSE IF n[2] = "transform_data" THEN {CleanNode(n[1])}
    ELSE {}

\* The nodes whose outputs are the inputs of n.
Upstream(n) ==
    IF n = WriteNode THEN {TransformNode(b) : b \in Branches}
    ELSE IF n[2] = "download_data" THEN {GetNode(n[1])}
    ELSE IF n[2] = "validate_data" THEN {DownloadNode(n[1])}
    ELSE IF n[2] = "clean_data" THEN {ValidateNode(n[1])}
    ELSE IF n[2] = "transform_data" THEN {CleanNode(n[1])}
    ELSE {}

\* The order of the list [data_nflx, data_dis].
WriteInputs == <<"NFLX", "DIS">>

Terminal == {"Succeeded", "Failed", "Skipped"}

NoFrame == [index |-> <<>>, col |-> [c \in {} |-> <<>>]]

VARIABLES
    state,      \* node -> Pending, Running, Succeeded, Failed, Skipped
    sym,        \* branch -> output of get_<symbol>, "" before it ran
    ref,        \* node -> object its op returned (0: none)
    heap,       \* the DataFrame objects, by id
    fetched,    \* branch -> the frame download_data returned, as it was then
    log,        \* context.log
    csv,        \* the file written by data.to_csv
    arg,        \* SpecAgg: the series transform_data is called on
    ret,        \* SpecAgg: the frame after the call
    raised,     \* SpecAgg: the call raised
    called      \* SpecAgg: the call was made

vars == <<state, sym, ref, heap, fetched, log, csv, arg, ret, raised, called>>
pipeVars == <<state, sym, ref, heap, fetched, log, csv>>
aggVars == <<arg, ret, raised, called>>

InitPipe ==
    /\ state = [n \in Nodes |-> "Pending"]
    /\ sym = [b \in Branches |-> ""]
    /\ ref = [n \in Nodes |-> 0]
    /\ heap = <<>>
    /\ fetched = [b \in Branches |-> NoFrame]
    /\ log = <<>>
    /\ csv = [written |-> FALSE, path |-> 0, data |-> NoFrame]

Init ==
    /\ InitPipe
    /\ arg = NoFrame
    /\ ret = NoFrame
    /\ raised = FALSE
    /\ called = FALSE

(***************************************************************************)
(* The executor.  A step starts once every upstream step has succeeded,    *)
(* and is skipped once some upstream step has failed or was skipped.       *)
(***************************************************************************)
Start(n) ==
    /\ state[n] = "Pending"
    /\ \A u \in Upstream(n) : state[u] = "Succeeded"
    /\ state' = [state EXCEPT ![n] = "Running"]
    /\ UNCHANGED <<sym, ref, heap, fetched, log, csv, aggVars>>

Skip(n) ==
    /\ state[n] = "Pending"
    /\ \E u \in Upstream(n) : state[u] \in {"Failed", "Skipped"}
    /\ state' = [state EXCEPT ![n] = "Skipped"]
    /\ UNCHANGED <<sym, ref, heap, fetched, log, csv, aggVars>>

\* The object a step of a branch receives: the one its upstream returned.
Input(n) == ref[CHOOSE u \in Upstream(n) : TRUE]

Succeed(n, r) ==
    /\ state' = [state EXCEPT ![n] = "Succeeded"]
    /\ ref' = [ref EXCEPT ![n] = r]

Fail(n) ==
    /\ state' = [state EXCEPT ![n] = "Failed"]
    /\ UNCHANGED ref

ExecGetTicker(b) ==
    /\ state[GetNode(b)] = "Running"
    /\ sym' = [sym EXCEPT ![b] = b]
    /\ Succeed(GetNode(b), 0)
    /\ UNCHANGED <<heap, fetched, log, csv, aggVars>>

\* One frame object reused by every download.
NewRefShared(h) == 1

\* The id of the object a call to the provider brings into being.
NewRef(h) == Len(h) + 1

Store(h, r, df) == IF r > Len(h) THEN Append(h, df) ELSE [h EXCEPT ![r] = df]

ExecDownloadData(b) ==
    /\ state[DownloadNode(b)] = "Running"
    /\ \/ \E raw \in ProviderFrames(sym[b]) :
            LET data == DownloadData(sym[b], raw)
                r == NewRef(heap)
            IN  /\ heap' = Store(heap, r, data)
                /\ fetched' = [fetched EXCEPT ![b] = data]
                /\ Succeed(DownloadNode(b), r)
       \/ /\ Fail(DownloadNode(b))
          /\ UNCHANGED <<heap, fetched>>
    /\ UNCHANGED <<sym, log, csv, aggVars>>

ExecValidateData(b) ==
    LET n == ValidateNode(b)
        r == Input(n)
        res == ValidateData(heap[r])
    IN  /\ state[n] = "Running"
        /\ IF res.ok
           THEN /\ log' = Append(log, ValidateLog(heap[r]))
                /\ Succeed(n, r)
           ELSE /\ Fail(n)
                /\ UNCHANGED log
        /\ heap' = Store(heap, r, res.frame)
        /\ UNCHANGED <<sym, fetched, csv, aggVars>>

ExecCleanData(b) ==
    LET n == CleanNode(b)
        r == Input(n)
        res == CleanData(heap[r])
    IN  /\ state[n] = "Running"
        /\ IF res.ok THEN Succeed(n, r) ELSE Fail(n)
        /\ heap' = Store(heap, r, res.frame)
        /\ UNCHANGED <<sym, fetched, log, csv, aggVars>>

ExecTransformData(b) ==
    LET n == TransformNode(b)
        r == Input(n)
        res == TransformData(heap[r])
    IN  /\ state[n] = "Running"
        /\ IF res.ok THEN Succeed(n, r) ELSE Fail(n)
        /\ heap' = Store(heap, r, res.frame)
        /\ UNCHANGED <<sym, fetched, log, csv, aggVars>>

\* The list write_to_csv receives.
WriteArgs == [k \in 1 .. Len(WriteInputs) |-> heap[ref[TransformNode(WriteInputs[k])]]]

ExecWriteToCsv ==
    /\ state[WriteNode] = "Running"
    /\ \E data \in SortOutcomes(Concat(WriteArgs)) :
          IF IsEmpty(data)
          THEN /\ Fail(WriteNode)
               /\ UNCHANGED <<csv, log>>
          ELSE /\ csv' = [written |-> TRUE, path |-> Date(data.index[1]), data |-> data]
               /\ log' = Append(log, [level |-> "info", op |-> "write_to_csv",
                                      msg |-> "Data written to file", ticker |-> ""])
               /\ Succeed(WriteNode, 0)
    /\ UNCHANGED <<sym, heap, fetched, aggVars>>

Next ==
    \/ \E n \in Nodes : Start(n)
    \/ \E n \in Nodes : Skip(n)
    \/ \E b \in Branches : ExecGetTicker(b)
    \/ \E b \in Branches : ExecDownloadData(b)
    \/ \E b \in Branches : ExecValidateData(b)
    \/ \E b \in Branches : ExecCleanData(b)
    \/ \E b \in Branches : ExecTransformData(b)
    \/ ExecWriteToCsv

Spec == Init /\ [][Next]_vars

(***************************************************************************)
(* transform_data on its own, over every series of the bounds: at most     *)
(* MaxBars bars at strictly ascending minutes of 0 .. MaxTime, counted     *)
(* from the first bar of the series.                                       *)
(***************************************************************************)
\* A series of the provider's bars, cleaned: the timestamps ix (strictly
\* ascending) and the kind of bar at each.
Series(ix, ks) ==
    SetColumn(BarsFrame(ix, [i \in 1 .. Len(ix) |-> BarKinds[ks[i]]],
                        RawCols \ {"Adj Close"}),
              "Ticker", [i \in 1 .. Len(ix) |-> "NFLX"])

InitAgg ==
    /\ InitPipe
    /\ \E n \in 0 .. MaxBars :
          \E ix \in [1 .. n -> 0 .. MaxTime] :
             /\ n > 0 => ix[1] = 0
             /\ \A i \in 1 .. n - 1 : ix[i] < ix[i + 1]
             /\ \E ks \in [1 .. n -> 1 .. Len(BarKinds)] : arg = Series(ix, ks)
    /\ ret = arg
    /\ raised = FALSE
    /\ called = FALSE

CallTransformData ==
    /\ ~called
    /\ LET res == TransformData(arg)
       IN  /\ ret' = res.frame
           /\ raised' = ~res.ok
    /\ called' = TRUE
    /\ UNCHANGED <<arg, pipeVars>>

NextAgg == CallTransformData

SpecAgg == InitAgg /\ [][NextAgg]_vars

(***************************************************************************)
(* Reference quantities the properties are stated with, computed from the  *)
(* series transform_data was called on (arg) by timestamp alone.           *)
(***************************************************************************)
RECURSIVE SetSum(_, _)
SetSum(S, f) ==
    IF S = {} THEN 0
    ELSE LET j == CHOOSE x \in S : TRUE IN f[j] + SetSum(S \ {j}, f)

Rows == 1 .. NRows(arg)

\* Bars of the trailing window of bar i, without and with a bar at exactly
\* Window minutes before it.
YoungerThanWindow(i) ==
    {j \in Rows : arg.index[j] <= arg.index[i] /\ arg.index[i] - arg.index[j] < Window}

WithinWindow(i) ==
    {j \in Rows : arg.index[j] <= arg.index[i] /\ arg.index[i] - arg.index[j] <= Window}

VolumeOf(W) == SetSum(W, arg.col["Volume"])

\* Three times the sum of typical_price * volume, an integer.
TPV3Of(W) ==
    SetSum(W, [j \in Rows |->
        (arg.col["High"][j] + arg.col["Low"][j] + arg.col["Close"][j]) * arg.col["Volume"][j]])

\* The VWAP output at bar i is sum(typical_price * volume) / sum(volume) over W.
VWAPIsOver(i, W) ==
    LET v == ret.col["VWAP"][i]
    IN  /\ IsFinite(v)
        /\ VolumeOf(W) > 0
        /\ v[1] * 3 * VolumeOf(W) = v[2] * TPV3Of(W)

Transformed == called /\ ~raised

NullVWAP == <<0, -1>>

ZeroWindow(i) == VolumeOf(YoungerThanWindow(i)) = 0

\* C5: a bar whose trailing-window volume is zero gets an explicit null or
\* the previous valid VWAP, never NaN or infinity, and the call fails when
\* every bar of the series is such a bar.
C5_NoDivideByZeroVolume ==
    called =>
        /\ \A i \in Rows :
              ZeroWindow(i) =>
                  \/ raised
                  \/ ret.col["VWAP"][i] = NullVWAP
                  \/ \E j \in Rows :
                        /\ j < i
                        /\ ~ZeroWindow(j)
                        /\ \A k \in (j + 1) .. (i - 1) : ZeroWindow(k)
                        /\ ret.col["VWAP"][i] = ret.col["VWAP"][j]
        /\ (Rows # {} /\ \A i \in Rows : ZeroWindow(i)) => raised

\* C6: at every bar with volume in its window the VWAP is
\* sum(typical_price * volume) / sum(volume) over the bars chosen by
\* timestamp: every bar younger than 15 minutes is in, every bar older than
\* 15 minutes is out, however many bars lie in between.
C6_VWAPByTimestamp ==
    Transformed =>
        \A i \in Rows :
            VolumeOf(YoungerThanWindow(i)) > 0 =>
                \/ VWAPIsOver(i, YoungerThanWindow(i))
                \/ VWAPIsOver(i, WithinWindow(i))

\* A gap: a traded bar older than the window with fewer than 15 bars in
\* between, which a window by count would take in.
C6_Witness ==
    /\ Transformed
    /\ \E i, j \in Rows :
          /\ j < i
          /\ i - j < Window
          /\ arg.index[i] - arg.index[j] > Window
          /\ arg.col["Volume"][j] > 0
          /\ arg.col["Volume"][i] > 0
          /\ ~VWAPIsOver(i, j .. i)

\* C10: DollarValue at bar t is the sum of close * volume over every bar of
\* the series with timestamp <= t, and so never decreases along the series.
C10_DollarValueCumulative ==
    Transformed =>
        \A i \in Rows :
            /\ ret.col["DollarValue"][i] =
                   SetSum({j \in Rows : arg.index[j] <= arg.index[i]},
                          [j \in Rows |-> arg.col["Close"][j] * arg.col["Volume"][j]])
            /\ i > 1 => ret.col["DollarValue"][i] >= ret.col["DollarValue"][i - 1]

\* A traded bar that has left the 15-minute window is still in the sum.
C10_Witness ==
    /\ Transformed
    /\ \E i, j \in Rows :
          /\ arg.index[i] - arg.index[j] > Window
          /\ arg.col["Volume"][j] > 0
          /\ arg.col["Volume"][i] > 0
          /\ ret.col["DollarValue"][i] > arg.col["Close"][i] * arg.col["Volume"][i]

(***************************************************************************)
(* Properties of the pipeline run.                                         *)
(***************************************************************************)
Started(n) == state[n] \in {"Running", "Succeeded", "Failed"}

\* The chain of a branch, as the order the properties name.
Chain(b) ==
    <<GetNode(b), DownloadNode(b), ValidateNode(b), CleanNode(b), TransformNode(b)>>

\* C1: no node has started unless everything upstream of it is terminal:
\* along each branch get_<symbol>, download_data, validate_data, clean_data,
\* transform_data in this order, and write_to_csv after both branches.
C1_DependencyOrder ==
    /\ \A b \in Branches : \A k \in 2 .. Len(Chain(b)) :
          Started(Chain(b)[k]) => state[Chain(b)[k - 1]] \in Terminal
    /\ Started(WriteNode) =>
          \A b \in Branches : \A k \in 1 .. Len(Chain(b)) : state[Chain(b)[k]] \in Terminal

\* The join is running, and DIS fetched its data before NFLX did.
C1_Witness ==
    /\ state[WriteNode] = "Running"
    /\ ref[TransformNode("DIS")] < ref[TransformNode("NFLX")]

BranchFailed(b) == \E n \in BranchNodes(b) : state[n] = "Failed"

BranchPresent(b) == state[TransformNode(b)] = "Succeeded"

\* C2: when a node of one branch failed and the run is over, the sibling
\* branch is terminal, and write_to_csv ran without raising and wrote only
\* the rows of the branches that are present.
C2_FailedBranchIsAbsentFromMerge ==
    \A b \in Branches :
        (/\ BranchFailed(b)
         /\ \E o \in Branches \ {b} : BranchPresent(o)
         /\ \A n \in Nodes : state[n] \in Terminal)
        => /\ state[WriteNode] = "Succeeded"
           /\ csv.written
           /\ \A i \in 1 .. NRows(csv.data) : BranchPresent(csv.data.col["Ticker"][i])

\* C3: validate_data on a series with no rows does not raise: it logs a
\* diagnostic, returns the same series unchanged, and clean_data is not
\* skipped.
C3_EmptySeriesPassesValidation ==
    \A b \in Branches :
        (state[ValidateNode(b)] \in {"Succeeded", "Failed"} /\ IsEmpty(fetched[b]))
        => /\ state[ValidateNode(b)] = "Succeeded"
           /\ \E k \in 1 .. Len(log) : log[k].op = "validate_data"
           /\ heap[ref[ValidateNode(b)]] = fetched[b]
           /\ state[CleanNode(b)] # "Skipped"

\* What a branch computes from the frame it fetched, on its own.
Cleaned(b) == CleanData(fetched[b]).frame
Enriched(b) == TransformData(Cleaned(b)).frame

\* The object of branch b as its own progress leaves it.
BranchObject(b) ==
    IF state[CleanNode(b)] # "Succeeded" THEN fetched[b]
    ELSE IF state[TransformNode(b)] \in {"Succeeded", "Failed"} THEN Enriched(b)
    ELSE Cleaned(b)

\* C7: whatever the interleaving, the object of a branch holds what that
\* branch alone computes from what it fetched, every step of the branch ends
\* as that frame decides, no object belongs to both branches, and the join
\* receives the two branch outputs in the order of its list.
C7_BranchesIndependent ==
    /\ \A b \in Branches :
          state[DownloadNode(b)] = "Succeeded" =>
             /\ heap[ref[DownloadNode(b)]] = BranchObject(b)
             /\ \A n \in {ValidateNode(b), CleanNode(b), TransformNode(b)} :
                   ref[n] \in {0, ref[DownloadNode(b)]}
             /\ state[ValidateNode(b)] \in {"Succeeded", "Failed"} =>
                   (state[ValidateNode(b)] = "Succeeded" <=> ValidateData(fetched[b]).ok)
             /\ state[CleanNode(b)] \in {"Succeeded", "Failed"} =>
                   (state[CleanNode(b)] = "Succeeded" <=> CleanData(fetched[b]).ok)
             /\ state[TransformNode(b)] \in {"Succeeded", "Failed"} =>
                   (state[TransformNode(b)] = "Succeeded" <=> TransformData(Cleaned(b)).ok)
    /\ \A b1, b2 \in Branches :
          (b1 # b2 /\ ref[DownloadNode(b1)] # 0) =>
              ref[DownloadNode(b1)] # ref[DownloadNode(b2)]
    /\ Started(WriteNode) => WriteArgs = <<Enriched("NFLX"), Enriched("DIS")>>

\* The run is over with the file written, DIS having fetched before NFLX
\* (the reverse of the order the graph is written in), both for the same
\* minutes.
C7_Witness ==
    /\ state[WriteNode] = "Succeeded"
    /\ ref[TransformNode("DIS")] = 1
    /\ ref[TransformNode("NFLX")] = 2
    /\ fetched["NFLX"].index = fetched["DIS"].index

Ascending(df) ==
    \A i \in 1 .. NRows(df) - 1 : df.index[i] <= df.index[i + 1]

\* C8: the merged series is ascending by timestamp, and rows of equal
\* timestamp come in one order of the symbols, the same at every timestamp.
C8_MergedOrderedWithSymbolTiebreak ==
    csv.written =>
        /\ Ascending(csv.data)
        /\ \E first \in Branches :
              \A i \in 1 .. NRows(csv.data) - 1 :
                  (/\ csv.data.index[i] = csv.data.index[i + 1]
                   /\ csv.data.col["Ticker"][i] # csv.data.col["Ticker"][i + 1])
                  => csv.data.col["Ticker"][i] = first

\* C9: clean_data fails on a series without the "Adj Close" column, and on
\* a series with it removes that column only, rows and their order kept.
C9_CleanDropsAdjCloseOrFails ==
    \A b \in Branches :
        state[CleanNode(b)] \in {"Succeeded", "Failed"} =>
            IF "Adj Close" \notin Columns(fetched[b])
            THEN state[CleanNode(b)] = "Failed"
            ELSE /\ state[CleanNode(b)] = "Succeeded"
                 /\ state[TransformNode(b)] \in {"Pending", "Running"} =>
                       LET d == heap[ref[CleanNode(b)]]
                       IN  /\ Columns(d) = Columns(fetched[b]) \ {"Adj Close"}
                           /\ d.index = fetched[b].index
                           /\ \A c \in Columns(d) : d.col[c] = fetched[b].col[c]

\* One branch failed in clean_data on a series without the column while the
\* other cleaned a series of two rows.
C9_Witness ==
    \E b, o \in Branches :
        /\ state[CleanNode(b)] = "Failed"
        /\ "Adj Close" \notin Columns(fetched[b])
        /\ state[CleanNode(o)] = "Succeeded"
        /\ state[TransformNode(o)] = "Pending"
        /\ NRows(heap[ref[CleanNode(o)]]) = 2
        /\ "Adj Close" \notin Columns(heap[ref[CleanNode(o)]])

====
